---------------------------- MODULE Spec2Model ----------------------------
(***************************************************************************)
(* A model of the mars recorder: the Recorder's hooks (Connect,            *)
(* BeforeRequest, BeforeResponse, Finish), Replay/DoRequest, the response  *)
(* rewrite (RewriteResp/RewriteBody) and the Example interceptor's copy of *)
(* it (modifyRespIfNeeded/modifyBodyIfNeeded, getContentType).             *)
(*                                                                         *)
(* Bytes are modelled as JSON concrete syntax: a document text keeps the   *)
(* order of its members, repeated keys, the spelling of its number         *)
(* literals and its insignificant white space, so that decoding followed   *)
(* by encoding is not the identity on bytes.  A Go panic is modelled as an *)
(* outcome (field panic) that unwinds the caller.                          *)
(***************************************************************************)
EXTENDS Integers, Sequences, FiniteSets, TLC

(***************************************************************************)
(* Bounds of the model.                                                    *)
(***************************************************************************)
\* The longest "records" array of the generated response bodies.
MaxRecords == 2
\* How many calls of Replay a behaviour holds.
MaxReplays == 1

(***************************************************************************)
(* strings: HasPrefix, TrimSpace, Split.                                   *)
(***************************************************************************)
HasPrefix(s, prefix) ==
    /\ Len(s) >= Len(prefix)
    /\ SubSeq(s, 1, Len(prefix)) = prefix

RECURSIVE TrimLeft(_)
TrimLeft(s) ==
    IF Len(s) > 0 /\ SubSeq(s, 1, 1) = " "
    THEN TrimLeft(SubSeq(s, 2, Len(s)))
    ELSE s

RECURSIVE TrimRight(_)
TrimRight(s) ==
    IF Len(s) > 0 /\ SubSeq(s, Len(s), Len(s)) = " "
    THEN TrimRight(SubSeq(s, 1, Len(s) - 1))
    ELSE s

TrimSpace(s) == TrimRight(TrimLeft(s))

\* The index of the first sep in s at or after i, or 0.
RECURSIVE IndexFrom(_, _, _)
IndexFrom(s, sep, i) ==
    IF i > Len(s) THEN 0
    ELSE IF SubSeq(s, i, i) = sep THEN i
    ELSE IndexFrom(s, sep, i + 1)

\* strings.Split for a one-byte separator: always at least one segment.
RECURSIVE Split(_, _)
Split(s, sep) ==
    LET i == IndexFrom(s, sep, 1)
    IN  IF i = 0 THEN <<s>>
        ELSE <<SubSeq(s, 1, i - 1)>> \o Split(SubSeq(s, i + 1, Len(s)), sep)

(***************************************************************************)
(* http.Header: a map from a header name to its values; Get yields the     *)
(* first value, or "" when the header is absent.                           *)
(***************************************************************************)
HeaderGet(h, key) ==
    IF key \in DOMAIN h /\ Len(h[key]) > 0 THEN h[key][1] ELSE ""

HeaderDel(h, key) == [k \in (DOMAIN h) \ {key} |-> h[k]]

(***************************************************************************)
(* getContentType (interceptor/example.go).                                *)
(***************************************************************************)
getContentType(h) ==
    LET ct == HeaderGet(h, "Content-Type")
        segments == Split(TrimSpace(ct), ";")
    IN  IF Len(segments) > 0 /\ segments[1] # ""
        THEN TrimSpace(segments[1])
        ELSE "application/octet-stream"

(***************************************************************************)
(* encoding/json.  A text is one of                                        *)
(*   [t |-> "bad", raw]        bytes that are no JSON document             *)
(*   [t |-> "null"], [t |-> "bool", b], [t |-> "num", lit],                *)
(*   [t |-> "str", s], [t |-> "arr", elems],                               *)
(*   [t |-> "obj", members, sp]  members in written order, sp bytes of     *)
(*                               insignificant white space                 *)
(* and a decoded value (Go's interface{}) is one of                        *)
(*   [k |-> "nil"], [k |-> "bool", b], [k |-> "float64", f],               *)
(*   [k |-> "string", s], [k |-> "slice", a], [k |-> "map", m].            *)
(***************************************************************************)
JNull == [t |-> "null"]
JNum(lit) == [t |-> "num", lit |-> lit]
JStr(s) == [t |-> "str", s |-> s]
JArr(elems) == [t |-> "arr", elems |-> elems]
JObj(members, sp) == [t |-> "obj", members |-> members, sp |-> sp]
JBad(raw) == [t |-> "bad", raw |-> raw]
Member(key, val) == [key |-> key, val |-> val]

\* The keys the model uses, in the byte order json.Marshal sorts map keys by.
KeyOrder == <<"records", "settingId", "total", "value">>

\* strconv.ParseFloat on the literals the model uses (float64 as an integer).
ParseFloat(lit) ==
    CASE lit = "0" -> 0
      [] lit = "1" -> 1
      [] lit = "1.0" -> 1
      [] lit = "1e0" -> 1

\* The shortest literal json.Marshal writes for a float64.
FormatFloat(f) ==
    CASE f = 0 -> "0"
      [] f = 1 -> "1"

MemberKeys(members) == {members[i].key : i \in 1..Len(members)}

\* The decoder keeps the last value of a repeated key.
LastMember(members, key) ==
    LET idx == {i \in 1..Len(members) : members[i].key = key}
        last == CHOOSE i \in idx : \A j \in idx : j <= i
    IN  members[last].val

RECURSIVE Decode(_)
Decode(x) ==
    CASE x.t = "null" -> [k |-> "nil"]
      [] x.t = "bool" -> [k |-> "bool", b |-> x.b]
      [] x.t = "num" -> [k |-> "float64", f |-> ParseFloat(x.lit)]
      [] x.t = "str" -> [k |-> "string", s |-> x.s]
      [] x.t = "arr" ->
            [k |-> "slice", a |-> [i \in 1..Len(x.elems) |-> Decode(x.elems[i])]]
      [] x.t = "obj" ->
            [k |-> "map",
             m |-> [key \in MemberKeys(x.members) |->
                        Decode(LastMember(x.members, key))]]

\* json.Unmarshal(body, &jsonObj)
Unmarshal(body) ==
    IF body.t = "bad"
    THEN [err |-> TRUE, v |-> [k |-> "nil"]]
    ELSE [err |-> FALSE, v |-> Decode(body)]

RECURSIVE Encode(_)
Encode(v) ==
    CASE v.k = "nil" -> JNull
      [] v.k = "bool" -> [t |-> "bool", b |-> v.b]
      [] v.k = "float64" -> JNum(FormatFloat(v.f))
      [] v.k = "string" -> JStr(v.s)
      [] v.k = "slice" -> JArr([i \in 1..Len(v.a) |-> Encode(v.a[i])])
      [] v.k = "map" ->
            LET keys == SelectSeq(KeyOrder, LAMBDA key : key \in DOMAIN v.m)
            IN  JObj([i \in 1..Len(keys) |-> Member(keys[i], Encode(v.m[keys[i]]))], 0)

\* json.Marshal(jsonObj): never fails on a value Unmarshal produced.
Marshal(v) == [err |-> FALSE, bytes |-> Encode(v)]

\* Sum of f over 1..n
RECURSIVE SumTo(_, _)
SumTo(f, n) == IF n = 0 THEN 0 ELSE f[n] + SumTo(f, n - 1)

Commas(n) == IF n > 1 THEN n - 1 ELSE 0

\* len(bytes)
RECURSIVE ByteLen(_)
ByteLen(x) ==
    CASE x.t = "bad" -> Len(x.raw)
      [] x.t = "null" -> 4
      [] x.t = "bool" -> IF x.b THEN 4 ELSE 5
      [] x.t = "num" -> Len(x.lit)
      [] x.t = "str" -> Len(x.s) + 2
      [] x.t = "arr" ->
            2 + Commas(Len(x.elems))
              + SumTo([i \in 1..Len(x.elems) |-> ByteLen(x.elems[i])], Len(x.elems))
      [] x.t = "obj" ->
            2 + x.sp + Commas(Len(x.members))
              + SumTo([i \in 1..Len(x.members) |->
                          Len(x.members[i].key) + 3 + ByteLen(x.members[i].val)],
                      Len(x.members))

(***************************************************************************)
(* The rewrite rule's configuration (part_000:117,155; example.go:36,78).  *)
(***************************************************************************)
HostPrefix == "xmnup-rxe-1-api.lab.nordigy.ru"
PathPrefix == "/restapi/v1.0/rooms-client/account"
SettingIdPrefix == "DigitalSignage.PlayEnabled"
GoTrue == [k |-> "string", s |-> "true"]

\* recordMap["value"] = "true"
MapSet(m, key, val) ==
    [x \in (DOMAIN m) \cup {key} |-> IF x = key THEN val ELSE m[x]]

(***************************************************************************)
(* Recorder.RewriteBody.  The result is (ret, update), or a panic: the     *)
(* type assertions of lines 144 and 149 are unchecked.                     *)
(***************************************************************************)
\* A slip of RecordMatches: the setting id must equal the prefix.
RecordMatchesExact(record) ==
    /\ record.k = "map"
    /\ "settingId" \in DOMAIN record.m
    /\ record.m["settingId"].k = "string"
    /\ record.m["settingId"].s = SettingIdPrefix

\* Lines 150-155: the element is a map whose settingId is a string with the prefix.
RecordMatches(record) ==
    /\ record.k = "map"
    /\ "settingId" \in DOMAIN record.m
    /\ record.m["settingId"].k = "string"
    /\ HasPrefix(record.m["settingId"].s, SettingIdPrefix)

\* A slip of RewriteRecords: a matching record's value is flipped, "true" when
\* it was not and "false" when it was.
RewriteRecordsFlip(a) ==
    [i \in 1..Len(a) |->
        IF RecordMatches(a[i])
        THEN [k |-> "map",
              m |-> MapSet(a[i].m, "value",
                           IF "value" \in DOMAIN a[i].m /\ a[i].m["value"] = GoTrue
                           THEN [k |-> "string", s |-> "false"]
                           ELSE GoTrue)]
        ELSE a[i]]

\* Lines 149-161: the loop over records, on the decoded document.
RewriteRecords(a) ==
    [i \in 1..Len(a) |->
        IF RecordMatches(a[i])
        THEN [k |-> "map", m |-> MapSet(a[i].m, "value", GoTrue)]
        ELSE a[i]]

Returned(ret, update) == [ret |-> ret, update |-> update, panic |-> FALSE]
Panicked(body) == [ret |-> body, update |-> FALSE, panic |-> TRUE]

RewriteBody(body) ==
    LET u == Unmarshal(body)
    IN  IF u.err THEN Returned(body, FALSE)
        ELSE IF u.v.k # "map" THEN Panicked(body)
        ELSE IF "records" \notin DOMAIN u.v.m THEN Returned(body, FALSE)
        ELSE LET records == u.v.m["records"]
             IN  IF records.k # "slice" THEN Panicked(body)
                 ELSE LET hasUpdate == \E i \in 1..Len(records.a) :
                                           RecordMatches(records.a[i])
                          jsonObj == [k |-> "map",
                                      m |-> MapSet(u.v.m, "records",
                                                [k |-> "slice",
                                                 a |-> RewriteRecords(records.a)])]
                          out == Marshal(jsonObj)
                      IN  IF hasUpdate /\ ~out.err
                          THEN Returned(out.bytes, TRUE)
                          ELSE Returned(body, FALSE)

(***************************************************************************)
(* modifyBodyIfNeeded (interceptor/example.go), translated on its own.     *)
(***************************************************************************)
modifyBodyIfNeeded(body) ==
    LET u == Unmarshal(body)
    IN  IF u.err THEN Returned(body, FALSE)
        ELSE IF u.v.k # "map" THEN Panicked(body)
        ELSE IF "records" \notin DOMAIN u.v.m THEN Returned(body, FALSE)
        ELSE LET records == u.v.m["records"]
             IN  IF records.k # "slice" THEN Panicked(body)
                 ELSE LET item(record) ==
                              IF /\ record.k = "map"
                                 /\ "settingId" \in DOMAIN record.m
                                 /\ record.m["settingId"].k = "string"
                                 /\ HasPrefix(record.m["settingId"].s, SettingIdPrefix)
                              THEN [hit |-> TRUE,
                                    rec |-> [k |-> "map",
                                             m |-> MapSet(record.m, "value", GoTrue)]]
                              ELSE [hit |-> FALSE, rec |-> record]
                          hasModified == \E i \in 1..Len(records.a) :
                                             item(records.a[i]).hit
                          jsonObj == [k |-> "map",
                                      m |-> MapSet(u.v.m, "records",
                                                [k |-> "slice",
                                                 a |-> [i \in 1..Len(records.a) |->
                                                           item(records.a[i]).rec]])]
                          out == Marshal(jsonObj)
                      IN  IF hasModified /\ ~out.err
                          THEN Returned(out.bytes, TRUE)
                          ELSE Returned(body, FALSE)

(***************************************************************************)
(* http.Response.  Body is a one-shot stream: buf is what it delivers,     *)
(* read says that it has been drained, fail that reading it fails.         *)
(***************************************************************************)
NoBytes == JBad("")
NewReader(bytes) == [buf |-> bytes, read |-> FALSE, fail |-> FALSE]
NilResp == [nil |-> TRUE, Header |-> <<>>, Body |-> NewReader(NoBytes),
            ContentLength |-> 0]
Response(header, stream, n) ==
    [nil |-> FALSE, Header |-> header, Body |-> stream, ContentLength |-> n]

\* ioutil.ReadAll(resp.Body): the bytes left, the error, the stream afterwards.
ReadAll(stream) ==
    [data |-> IF stream.read \/ stream.fail THEN NoBytes ELSE stream.buf,
     err |-> stream.fail /\ ~stream.read,
     stream |-> [stream EXCEPT !.read = TRUE]]

\* What a reader of the stream gets from here on.
Readable(stream) == ReadAll(stream).data

\* A slip of UrlMatches: the Recorder's copy of the rule has lost the path test.
UrlMatchesHostOnly(req) == HasPrefix(req.URL.Host, HostPrefix)

\* A slip of UrlMatches: either prefix is enough.
UrlMatchesEither(req) ==
    \/ HasPrefix(req.URL.Host, HostPrefix)
    \/ HasPrefix(req.URL.Path, PathPrefix)

\* Line 117: the request part of the eligibility predicate.
UrlMatches(req) ==
    /\ HasPrefix(req.URL.Host, HostPrefix)
    /\ HasPrefix(req.URL.Path, PathPrefix)

(***************************************************************************)
(* Recorder.RewriteResp: the response afterwards, or a panic (resp.Header  *)
(* of a nil response, or RewriteBody's).  bodyRead says ReadAll ran.       *)
(***************************************************************************)
RewriteResp(req, resp) ==
    IF ~UrlMatches(req)
    THEN [resp |-> resp, panic |-> FALSE, bodyRead |-> FALSE]
    ELSE IF resp.nil
    THEN [resp |-> resp, panic |-> TRUE, bodyRead |-> FALSE]
    ELSE IF ~HasPrefix(getContentType(resp.Header), "application/json")
    THEN [resp |-> resp, panic |-> FALSE, bodyRead |-> FALSE]
    ELSE LET rd == ReadAll(resp.Body)
             drained == [resp EXCEPT !.Body = rd.stream]
         IN  IF rd.err
             THEN [resp |-> drained, panic |-> FALSE, bodyRead |-> TRUE]
             ELSE LET rw == RewriteBody(rd.data)
                  IN  IF rw.panic
                      THEN [resp |-> drained, panic |-> TRUE, bodyRead |-> TRUE]
                      ELSE IF rw.update
                      THEN [resp |-> [resp EXCEPT !.ContentLength = ByteLen(rw.ret),
                                                  !.Body = NewReader(rw.ret)],
                            panic |-> FALSE, bodyRead |-> TRUE]
                      ELSE [resp |-> drained, panic |-> FALSE, bodyRead |-> TRUE]

(***************************************************************************)
(* modifyRespIfNeeded (interceptor/example.go).                            *)
(***************************************************************************)
modifyRespIfNeeded(req, resp) ==
    IF ~(HasPrefix(req.URL.Host, HostPrefix) /\ HasPrefix(req.URL.Path, PathPrefix))
    THEN [resp |-> resp, panic |-> FALSE, bodyRead |-> FALSE]
    ELSE IF resp.nil
    THEN [resp |-> resp, panic |-> TRUE, bodyRead |-> FALSE]
    ELSE IF ~HasPrefix(getContentType(resp.Header), "application/json")
    THEN [resp |-> resp, panic |-> FALSE, bodyRead |-> FALSE]
    ELSE LET rd == ReadAll(resp.Body)
             drained == [resp EXCEPT !.Body = rd.stream]
         IN  IF rd.err
             THEN [resp |-> drained, panic |-> FALSE, bodyRead |-> TRUE]
             ELSE LET md == modifyBodyIfNeeded(rd.data)
                  IN  IF md.panic
                      THEN [resp |-> drained, panic |-> TRUE, bodyRead |-> TRUE]
                      ELSE IF md.update
                      THEN [resp |-> [resp EXCEPT !.ContentLength = ByteLen(md.ret),
                                                  !.Body = NewReader(md.ret)],
                            panic |-> FALSE, bodyRead |-> TRUE]
                      ELSE [resp |-> drained, panic |-> FALSE, bodyRead |-> TRUE]

(***************************************************************************)
(* Inputs of the rewrite: response bodies, content types, request URLs.    *)
(***************************************************************************)
JAbsent == [t |-> "absent"]

SidOpts == {JAbsent, JStr(SettingIdPrefix), JStr(SettingIdPrefix \o ".x"),
            JStr("Other.Setting"), JStr("DigitalSignage.Play"), JNum("1.0")}
ValOpts == {JAbsent, JStr("false")}

Opt(key, x) == IF x = JAbsent THEN <<>> ELSE <<Member(key, x)>>

\* An element of the records array: an object, written settingId first.
ElemObj(sid, val) == JObj(Opt("settingId", sid) \o Opt("value", val), 0)

Elements ==
    {ElemObj(sid, val) : sid \in SidOpts, val \in ValOpts}
    \cup {JObj(<<Member("value", JStr("false")),
                 Member("settingId", JStr(SettingIdPrefix))>>, 1),
          JObj(<<Member("settingId", JStr(SettingIdPrefix)),
                 Member("value", JStr("true"))>>, 0),
          JObj(<<Member("settingId", JStr("Other.Setting")),
                 Member("settingId", JStr(SettingIdPrefix \o ".y")),
                 Member("value", JNum("1.0"))>>, 0),
          JNull,
          JStr(SettingIdPrefix)}

RecordArrays == UNION {[1..n -> Elements] : n \in 0..MaxRecords}

BadBodies == {JBad(""), JBad("not json"), JBad("{\"records\":[")}
NonObjectBodies == {JNull, JArr(<<>>), JStr("records"), JNum("1.0"),
                    [t |-> "bool", b |-> TRUE]}
NoRecordsBodies == {JObj(<<>>, 0), JObj(<<Member("total", JNum("1"))>>, 1)}
RecordsNotArrayBodies ==
    {JObj(<<Member("records", x)>>, 0) :
        x \in {JNull, JStr("x"), JNum("1"),
               JObj(<<Member("settingId", JStr(SettingIdPrefix))>>, 0)}}
    \cup {JObj(<<Member("records", JArr(<<ElemObj(JStr(SettingIdPrefix), JAbsent)>>)),
                 Member("records", JStr("x"))>>, 0)}
RecordsBodies ==
    {JObj(<<Member("records", JArr(a))>>, 0) : a \in RecordArrays}
    \cup {JObj(<<Member("total", JNum("1.0")), Member("records", JArr(a))>>, 1) :
             a \in RecordArrays}
    \cup {JObj(<<Member("records", JStr("x")), Member("records", JArr(a))>>, 0) :
             a \in [1..1 -> Elements]}

Bodies == BadBodies \cup NonObjectBodies \cup NoRecordsBodies
              \cup RecordsNotArrayBodies \cup RecordsBodies

\* Scenario A and Scenario B of the specification, and other bodies of a response.
ScenarioA ==
    JObj(<<Member("records",
              JArr(<<ElemObj(JStr(SettingIdPrefix \o ".x"), JStr("false"))>>))>>, 0)
ScenarioB ==
    JObj(<<Member("records",
              JArr(<<ElemObj(JStr("Other.Setting"), JStr("false"))>>))>>, 0)
PrettyA ==
    JObj(<<Member("total", JNum("1.0")),
           Member("records",
              JArr(<<ElemObj(JStr("Other.Setting"), JStr("false")),
                     ElemObj(JStr(SettingIdPrefix), JAbsent)>>))>>, 1)

ContentTypes ==
    {<<>>, <<"">>, <<"application/json">>, <<"application/json; charset=utf-8">>,
     <<" application/json ;q=1">>, <<"application/jsonp">>, <<"; application/json">>,
     <<"Application/JSON">>, <<"text/html">>, <<"text/html", "application/json">>}

CtHeader(ct) == IF ct = <<>> THEN <<>> ELSE ("Content-Type" :> ct)

UrlHosts == {HostPrefix, HostPrefix \o ":443", "example.com", ""}
UrlPaths == {PathPrefix, PathPrefix \o "/1/settings", "/restapi/v1.0/other", "/"}

Request(host, urlHost, path, header, remote) ==
    [Host |-> host, URL |-> [Host |-> urlHost, Path |-> path], Header |-> header,
     RemoteAddr |-> remote]

(***************************************************************************)
(* The state.                                                              *)
(*   cfg       the Recorder's fields: interceptor, storage, output         *)
(*   ctx       the goproxy.Context of each exchange: where the exchange is *)
(*             (pc), ctx.Req, ctx.Data, the response it forwards, what the *)
(*             engine delivered (inReq, inResp, inErr), whether the        *)
(*             transport has a connection for it (conn) and the Recorder's *)
(*             hooks called on it so far (hooks)                           *)
(*   txs       the Transactions NewTransaction has allocated               *)
(*   sinkLog   the calls of Storage.Put and Output.Write, in order         *)
(*   warnings  the log.Warnf lines of Finish                               *)
(*   lastReplay  the last call of Replay: what it returned, and the client *)
(*             IP of the Transaction it looked up                          *)
(*   crashed   a panic left a goroutine nothing recovers: the process died *)
(*   nBeforeRequest  how often BeforeRequest has run                       *)
(*   nReplay   how often Replay has been called                            *)
(*   t         the rewrite applied to one input on its own                 *)
(***************************************************************************)
VARIABLES cfg, ctx, txs, sinkLog, warnings, lastReplay, crashed, nBeforeRequest,
          nReplay, t

vars == <<cfg, ctx, txs, sinkLog, warnings, lastReplay, crashed, nBeforeRequest, nReplay, t>>

\* The exchange a client's connection starts, and the one Replay's goroutine runs.
LiveCtx == {"live"}
ReplayCtx == {"replay"}
CtxIds == LiveCtx \cup ReplayCtx

Configs ==
    {[interceptor |-> "Example", storage |-> TRUE, output |-> TRUE],
     [interceptor |-> "nil", storage |-> TRUE, output |-> TRUE],
     [interceptor |-> "nil", storage |-> FALSE, output |-> TRUE],
     [interceptor |-> "Example", storage |-> TRUE, output |-> FALSE]}

NoReq == Request("", "", "", <<>>, "")

LiveRequests ==
    {Request(HostPrefix, HostPrefix, PathPrefix \o "/1/settings", <<>>,
             "10.0.0.1:5555"),
     Request(HostPrefix, HostPrefix, PathPrefix,
             ("X-Mars-Host" :> <<"internal.example", "second">>)
                 @@ ("X-Mars-Debug" :> <<"1">>),
             "[::1]:5555"),
     Request("example.com", "example.com", "/",
             ("X-Mars-Host" :> <<"">>) @@ ("Accept" :> <<"*/*">>), "10.0.0.1:5555"),
     Request("example.com", "example.com", PathPrefix,
             ("X-Mars-Debug" :> <<"1">>), "10.0.0.1")}

JsonResponse(ct, body) == Response(CtHeader(ct), NewReader(body), ByteLen(body))

\* What the engine's RoundTrip yields: a response, or an error and no response;
\* conn says that a connection was obtained (a response needs one).
Outcome(resp, err, conn) == [resp |-> resp, err |-> err, conn |-> conn]
RoundTrips ==
    {Outcome(NilResp, TRUE, FALSE),
     Outcome(NilResp, TRUE, TRUE),
     Outcome(JsonResponse(<<"application/json">>, ScenarioA), FALSE, TRUE),
     Outcome(JsonResponse(<<"application/json; charset=utf-8">>, ScenarioB), FALSE, TRUE),
     Outcome(JsonResponse(<<"application/json">>, JBad("not json")), FALSE, TRUE),
     Outcome(JsonResponse(<<"application/json">>, JArr(<<>>)), FALSE, TRUE)}

(***************************************************************************)
(* Transaction (its file is not among the sources: modelled from the       *)
(* specification, sections 3 and 4.3).                                     *)
(***************************************************************************)
NoReqDump == [valid |-> FALSE, dumped |-> FALSE, req |-> NoReq]
NoRespDump == [dumped |-> FALSE, err |-> FALSE, header |-> <<>>, body |-> NoBytes,
               contentLength |-> 0]

NewTransaction ==
    [ClientIP |-> "", ServerIP |-> "", StartTime |-> "zero", Duration |-> "zero",
     Req |-> NoReqDump, Resp |-> NoRespDump]

\* tx.DumpRequest(req): a snapshot Restore can rebuild the request from.
DumpRequest(req) ==
    [valid |-> TRUE, dumped |-> TRUE, req |-> [req EXCEPT !.RemoteAddr = ""]]

\* tx.Req.Restore(): the request of the dump, or an error for an invalid dump.
Restore(dump) ==
    IF dump.valid THEN [err |-> FALSE, req |-> dump.req]
    ELSE [err |-> TRUE, req |-> NoReq]

\* tx.DumpResponse(resp, err): the error in place of a response, or the response
\* with the bytes its body still delivers.
DumpResponse(resp, err) ==
    IF err
    THEN [NoRespDump EXCEPT !.dumped = TRUE, !.err = TRUE]
    ELSE [dumped |-> TRUE, err |-> FALSE, header |-> resp.Header,
          body |-> Readable(resp.Body), contentLength |-> resp.ContentLength]

\* The response after the dump: the dump buffers the body and puts it back.
AfterDump(resp) ==
    IF resp.nil THEN resp
    ELSE [resp EXCEPT !.Body = [@ EXCEPT !.buf = Readable(resp.Body), !.read = FALSE]]

(***************************************************************************)
(* net.SplitHostPort: the host of "host:port" or "[host]:port"; "" when    *)
(* the address has no port, too many colons or a missing bracket.          *)
(***************************************************************************)
RECURSIVE LastIndex(_, _, _)
LastIndex(s, sep, i) ==
    IF i = 0 THEN 0
    ELSE IF SubSeq(s, i, i) = sep THEN i
    ELSE LastIndex(s, sep, i - 1)

SplitHostPort(addr) ==
    LET i == LastIndex(addr, ":", Len(addr))
    IN  IF i = 0 THEN ""
        ELSE IF SubSeq(addr, 1, 1) = "["
        THEN LET e == IndexFrom(addr, "]", 1)
             IN  IF e # 0 /\ e + 1 = i THEN SubSeq(addr, 2, e - 1) ELSE ""
        ELSE LET host == SubSeq(addr, 1, i - 1)
             IN  IF IndexFrom(host, ":", 1) # 0 THEN "" ELSE host

(***************************************************************************)
(* The transactions a Storage of an earlier run holds: one sound, one with *)
(* a request dump Restore rejects.                                         *)
(***************************************************************************)
StoredBefore ==
    {[NewTransaction EXCEPT
        !.ClientIP = "10.0.0.9", !.StartTime = "stamped", !.Duration = "measured",
        !.Req = DumpRequest(Request(HostPrefix, HostPrefix, PathPrefix, <<>>, "")),
        !.Resp = DumpResponse(NilResp, TRUE)],
     [NewTransaction EXCEPT
        !.ClientIP = "10.0.0.9", !.StartTime = "stamped", !.Duration = "measured",
        !.Req = [NoReqDump EXCEPT !.dumped = TRUE],
        !.Resp = DumpResponse(NilResp, TRUE)]}

\* What Storage.Get can find: earlier runs' transactions and those Put stored.
Stored ==
    StoredBefore
    \cup {sinkLog[i].snap : i \in {j \in 1..Len(sinkLog) :
                                      sinkLog[j].sink = "Put" /\ sinkLog[j].ok}}

FreeCtx ==
    [pc |-> "free", origin |-> "none", Req |-> NoReq, Data |-> <<>>,
     Resp |-> NilResp, inReq |-> NoReq, inResp |-> NilResp, inErr |-> FALSE,
     conn |-> FALSE, hooks |-> <<>>]

NoReplay == [cause |-> "none", result |-> "none", dispatched |-> FALSE, clientIP |-> ""]

\* The input of the rewrite on its own; nothing applied yet.
NoInput == [op |-> "none", kind |-> "none"]

Init ==
    /\ cfg \in Configs
    /\ ctx = [c \in CtxIds |-> FreeCtx]
    /\ txs = <<>>
    /\ sinkLog = <<>>
    /\ warnings = <<>>
    /\ lastReplay = NoReplay
    /\ crashed = FALSE
    /\ nBeforeRequest = 0
    /\ nReplay = 0
    /\ t = NoInput

(***************************************************************************)
(* The proxy engine: a client's connection starts an exchange (ServeHTTP   *)
(* makes its context), and the engine ends some exchanges before           *)
(* BeforeRequest (a tunnel, a request answered or failed at Connect).      *)
(***************************************************************************)
Accept(c) ==
    /\ ~crashed
    /\ c \in LiveCtx
    /\ ctx[c].pc = "free"
    /\ \E r \in LiveRequests :
          ctx' = [ctx EXCEPT ![c] = [FreeCtx EXCEPT !.pc = "accepted",
                                                    !.origin = "live",
                                                    !.Req = r, !.inReq = r]]
    /\ UNCHANGED <<cfg, txs, sinkLog, warnings, lastReplay, crashed, nBeforeRequest, nReplay, t>>

ShortCircuit(c) ==
    /\ ~crashed
    /\ ctx[c].pc = "connected"
    /\ ctx' = [ctx EXCEPT ![c].pc = "aborted"]
    /\ UNCHANGED <<cfg, txs, sinkLog, warnings, lastReplay, crashed, nBeforeRequest, nReplay, t>>

(***************************************************************************)
(* Recorder.Connect: the interceptor's Connect, which does nothing.        *)
(***************************************************************************)
Connect(c) ==
    /\ ~crashed
    /\ ctx[c].pc = "accepted"
    /\ ctx' = [ctx EXCEPT ![c].pc = "connected",
                          ![c].hooks = Append(@, "Connect")]
    /\ UNCHANGED <<cfg, txs, sinkLog, warnings, lastReplay, crashed, nBeforeRequest, nReplay, t>>

(***************************************************************************)
(* Recorder.BeforeRequest.                                                 *)
(***************************************************************************)
\* A slip of HostOverride: the headers are stripped only when the override fired.
HostOverrideStripIfFired(req) ==
    LET host == HeaderGet(req.Header, "X-Mars-Host")
    IN  IF host # ""
        THEN [req EXCEPT !.Host = host,
                         !.Header = HeaderDel(HeaderDel(@, "X-Mars-Host"),
                                              "X-Mars-Debug")]
        ELSE req

\* Lines 92-96: the host override and the two headers stripped.
HostOverride(req) ==
    LET host == HeaderGet(req.Header, "X-Mars-Host")
        r1 == IF host # "" THEN [req EXCEPT !.Host = host] ELSE req
    IN  [r1 EXCEPT !.Header = HeaderDel(HeaderDel(@, "X-Mars-Host"), "X-Mars-Debug")]

\* Lines 97-99: Example.BeforeRequest leaves the request as it is.
InterceptBeforeRequest(config, req) == req

\* Lines 100-104: the new Transaction of the request.
RequestTx(req) ==
    [NewTransaction EXCEPT !.ClientIP = SplitHostPort(req.RemoteAddr),
                           !.StartTime = "stamped",
                           !.Req = DumpRequest(req)]

\* A slip of StoreTx: the Recorder keeps the Transaction of the request at hand
\* in one place of its own, which every context refers to.
StoreTxShared(heap, data, tx) ==
    [heap |-> IF Len(heap) > 0 THEN [heap EXCEPT ![1] = tx] ELSE <<tx>>,
     data |-> [x \in (DOMAIN data) \cup {"tx"} |-> 1]]

\* A slip of StoreTx: a Transaction already allocated is taken for the request.
StoreTxReuse(heap, data, tx) ==
    IF Len(heap) > 0
    THEN [heap |-> heap, data |-> [x \in (DOMAIN data) \cup {"tx"} |-> Len(heap)]]
    ELSE [heap |-> Append(heap, tx),
          data |-> [x \in (DOMAIN data) \cup {"tx"} |-> Len(heap) + 1]]

\* Lines 100, 113: the Transaction is allocated and ctx.Data["tx"] points to it.
StoreTx(heap, data, tx) ==
    [heap |-> Append(heap, tx),
     data |-> [x \in (DOMAIN data) \cup {"tx"} |-> Len(heap) + 1]]

BeforeRequest(c) ==
    /\ ~crashed
    /\ ctx[c].pc \in {"connected", "started"}
    /\ LET req == InterceptBeforeRequest(cfg, HostOverride(ctx[c].Req))
           st == StoreTx(txs, ctx[c].Data, RequestTx(req))
       IN  /\ txs' = st.heap
           /\ ctx' = [ctx EXCEPT ![c].pc = "requested", ![c].Req = req,
                                 ![c].Data = st.data,
                                 ![c].hooks = Append(@, "BeforeRequest")]
    /\ nBeforeRequest' = nBeforeRequest + 1
    /\ UNCHANGED <<cfg, sinkLog, warnings, lastReplay, crashed, nReplay, t>>

\* Lines 107-109: the trace's GotConn, which the transport calls with the
\* connection it obtained: the write of tx.ServerIP.
GotConn(tx, remoteAddr) == [tx EXCEPT !.ServerIP = SplitHostPort(remoteAddr)]

\* A slip of InRoundTrip: the callback may still come when the round trip is over.
InRoundTripOrLater(c) ==
    /\ "tx" \in DOMAIN ctx[c].Data
    /\ ctx[c].pc \in {"requested", "tripped", "responded", "finished"}

\* The transport calls the trace's hooks while its RoundTrip of the request runs
\* (it calls GotConn from RoundTrip itself, before it writes the request).
InRoundTrip(c) == ctx[c].pc = "requested"

\* The transport has a connection for the request and calls GotConn with it.
TraceGotConn(c) ==
    /\ ~crashed
    /\ InRoundTrip(c)
    /\ ~ctx[c].conn
    /\ ctx' = [ctx EXCEPT ![c].conn = TRUE]
    /\ txs' = [txs EXCEPT ![ctx[c].Data["tx"]] = GotConn(@, "192.0.2.7:443")]
    /\ UNCHANGED <<cfg, sinkLog, warnings, lastReplay, crashed, nBeforeRequest, nReplay, t>>

\* The engine's RoundTrip of the request BeforeRequest left returns: a response
\* or an error if the transport had a connection, an error if it had none.
RoundTrip(c) ==
    /\ ~crashed
    /\ ctx[c].pc = "requested"
    /\ \E o \in RoundTrips :
          /\ o.conn = ctx[c].conn
          /\ ctx' = [ctx EXCEPT ![c].pc = "tripped", ![c].inResp = o.resp,
                                ![c].inErr = o.err]
    /\ UNCHANGED <<cfg, txs, sinkLog, warnings, lastReplay, crashed, nBeforeRequest, nReplay, t>>

(***************************************************************************)
(* Recorder.BeforeResponse: the interceptor first, then the duration, the  *)
(* rewrite and the dump.  A panic of the interceptor or of the rewrite     *)
(* unwinds BeforeResponse where it is.                                     *)
(***************************************************************************)
\* Lines 178-180: Example.BeforeResponse is modifyRespIfNeeded.
InterceptBeforeResponse(config, req, resp) ==
    IF config.interceptor = "nil"
    THEN [resp |-> resp, panic |-> FALSE, bodyRead |-> FALSE]
    ELSE modifyRespIfNeeded(req, resp)

\* A slip of BeforeResponseOf: the interceptor is called after the duration and
\* the Recorder's rewrite, on the rewritten response.
BeforeResponseOfInterceptorLast(config, req, tx, o) ==
    LET timed == [tx EXCEPT !.Duration = "measured"]
        rw == RewriteResp(req, o.resp)
        ic == InterceptBeforeResponse(config, req, rw.resp)
    IN  IF rw.panic
        THEN [panic |-> TRUE, tx |-> timed, resp |-> rw.resp]
        ELSE IF ic.panic
        THEN [panic |-> TRUE, tx |-> timed, resp |-> ic.resp]
        ELSE [panic |-> FALSE,
              tx |-> [timed EXCEPT !.Resp = DumpResponse(ic.resp, o.err)],
              resp |-> AfterDump(ic.resp)]

\* Lines 178-186: the interceptor, the duration, the rewrite, the dump.
BeforeResponseOf(config, req, tx, o) ==
    LET ic == InterceptBeforeResponse(config, req, o.resp)
        timed == [tx EXCEPT !.Duration = "measured"]
        rw == RewriteResp(req, ic.resp)
    IN  IF ic.panic
        THEN [panic |-> TRUE, tx |-> tx, resp |-> ic.resp]
        ELSE IF rw.panic
        THEN [panic |-> TRUE, tx |-> timed, resp |-> rw.resp]
        ELSE [panic |-> FALSE,
              tx |-> [timed EXCEPT !.Resp = DumpResponse(rw.resp, o.err)],
              resp |-> AfterDump(rw.resp)]

BeforeResponse(c) ==
    /\ ~crashed
    /\ ctx[c].pc = "tripped"
    /\ LET i == ctx[c].Data["tx"]
           o == [resp |-> ctx[c].inResp, err |-> ctx[c].inErr]
           r == BeforeResponseOf(cfg, ctx[c].Req, txs[i], o)
       IN  /\ txs' = [txs EXCEPT ![i] = r.tx]
           /\ ctx' = [ctx EXCEPT ![c].pc = IF r.panic THEN "panicked"
                                                      ELSE "responded",
                                 ![c].Resp = r.resp,
                                 ![c].hooks = Append(@, "BeforeResponse")]
           \* Nothing recovers a panic in the goroutine Replay started.
           /\ crashed' = (r.panic /\ ctx[c].origin = "replay")
    /\ UNCHANGED <<cfg, sinkLog, warnings, lastReplay, nBeforeRequest, nReplay, t>>

(***************************************************************************)
(* Recorder.Finish.                                                        *)
(***************************************************************************)
SinkCall(sink, ok) == [sink |-> sink, ok |-> ok]

\* A slip of FinishCalls: Finish returns when Storage.Put fails.
FinishCallsReturnOnError(config, data, putOk, writeOk) ==
    IF "tx" \notin DOMAIN data THEN <<>>
    ELSE IF config.storage /\ ~putOk THEN <<SinkCall("Put", putOk)>>
    ELSE (IF config.storage THEN <<SinkCall("Put", putOk)>> ELSE <<>>)
         \o (IF config.output THEN <<SinkCall("Write", writeOk)>> ELSE <<>>)

\* A slip of FinishCalls: a context without a Transaction still reaches the sinks.
FinishCallsNoGuard(config, data, putOk, writeOk) ==
    (IF config.storage THEN <<SinkCall("Put", putOk)>> ELSE <<>>)
    \o (IF config.output THEN <<SinkCall("Write", writeOk)>> ELSE <<>>)

\* Lines 196-216: the calls Finish makes, given what each sink will answer.
FinishCalls(config, data, putOk, writeOk) ==
    IF "tx" \notin DOMAIN data THEN <<>>
    ELSE (IF config.storage THEN <<SinkCall("Put", putOk)>> ELSE <<>>)
         \o (IF config.output THEN <<SinkCall("Write", writeOk)>> ELSE <<>>)

\* A slip of FinishDue: Finish is deferred, and runs when a hook has panicked too.
FinishDueDeferred(c) == ctx[c].pc \in {"responded", "aborted", "panicked"}

\* Line 253 (and the engine, for a live exchange): Finish is called when the
\* exchange is over, after the hooks before it have returned.
FinishDue(c) == ctx[c].pc \in {"responded", "aborted"}

Finish(c) ==
    /\ ~crashed
    /\ FinishDue(c)
    /\ \E putOk \in BOOLEAN, writeOk \in BOOLEAN :
          LET calls == FinishCalls(cfg, ctx[c].Data, putOk, writeOk)
              i == IF "tx" \in DOMAIN ctx[c].Data THEN ctx[c].Data["tx"] ELSE 0
              entry(k) == [ctx |-> c, sink |-> calls[k].sink, ok |-> calls[k].ok,
                           tx |-> i,
                           snap |-> IF i \in DOMAIN txs THEN txs[i]
                                    ELSE NewTransaction]
              entries == [k \in 1..Len(calls) |-> entry(k)]
          IN  /\ sinkLog' = sinkLog \o entries
              /\ warnings' = warnings
                    \o SelectSeq([k \in 1..Len(calls) |->
                                     [ctx |-> c, sink |-> calls[k].sink,
                                      ok |-> calls[k].ok]],
                                 LAMBDA w : ~w.ok)
    /\ ctx' = [ctx EXCEPT ![c].pc = "finished", ![c].hooks = Append(@, "Finish")]
    /\ UNCHANGED <<cfg, txs, lastReplay, crashed, nBeforeRequest, nReplay, t>>

(***************************************************************************)
(* Recorder.Replay and Recorder.DoRequest.                                 *)
(***************************************************************************)
\* What Storage.Get returns: (tx, err); tx is nil when isNil.
GetResult(err, isNil, tx) == [err |-> err, isNil |-> isNil, tx |-> tx]

GetResults ==
    {GetResult(TRUE, TRUE, NewTransaction), GetResult(FALSE, TRUE, NewTransaction)}
    \cup {GetResult(FALSE, FALSE, x) : x \in Stored}

ReplayOut(result, dispatch, req) ==
    [result |-> result, dispatch |-> dispatch, req |-> req]

\* A slip of ReplayOf: the test of Restore's error is inverted.
ReplayOfRestoreInverted(config, get) ==
    IF ~config.storage THEN ReplayOut("panic", FALSE, NoReq)
    ELSE IF get.err THEN ReplayOut("error", FALSE, NoReq)
    ELSE IF get.isNil THEN ReplayOut("panic", FALSE, NoReq)
    ELSE LET r == Restore(get.tx.Req)
         IN  IF ~r.err THEN ReplayOut("error", FALSE, NoReq)
             ELSE ReplayOut("nil", TRUE,
                            [r.req EXCEPT !.RemoteAddr = get.tx.ClientIP \o ":80"])

\* Lines 226-237: "error" is a non-nil error, "nil" is success, "panic" is the nil
\* dereference of r.storage or of the Transaction Get returned.
ReplayOf(config, get) ==
    IF ~config.storage THEN ReplayOut("panic", FALSE, NoReq)
    ELSE IF get.err THEN ReplayOut("error", FALSE, NoReq)
    ELSE IF get.isNil THEN ReplayOut("panic", FALSE, NoReq)
    ELSE LET r == Restore(get.tx.Req)
         IN  IF r.err THEN ReplayOut("error", FALSE, NoReq)
             ELSE ReplayOut("nil", TRUE,
                            [r.req EXCEPT !.RemoteAddr = get.tx.ClientIP \o ":80"])

\* Why the lookup of a Replay call did not yield a request, if it did not.
ReplayCause(get) ==
    IF get.err THEN "get-error"
    ELSE IF get.isNil THEN "no-transaction"
    ELSE IF Restore(get.tx.Req).err THEN "restore-error"
    ELSE "found"

Replay ==
    /\ ~crashed
    /\ nReplay < MaxReplays
    /\ nReplay' = nReplay + 1
    /\ \E get \in GetResults :
          LET out == ReplayOf(cfg, get)
          IN  /\ lastReplay' = [cause |-> ReplayCause(get), result |-> out.result,
                                dispatched |-> out.dispatch,
                                clientIP |-> get.tx.ClientIP]
              /\ IF out.dispatch
                 THEN \E c \in ReplayCtx :
                         /\ ctx[c].pc = "free"
                         /\ ctx' = [ctx EXCEPT ![c] =
                                       [FreeCtx EXCEPT !.pc = "dispatched",
                                                       !.origin = "replay",
                                                       !.Req = out.req,
                                                       !.inReq = out.req]]
                 ELSE ctx' = ctx
    /\ UNCHANGED <<cfg, txs, sinkLog, warnings, crashed, nBeforeRequest, t>>

\* Lines 241-248: the goroutine starts; the engine's DoRequest makes ctx.Data and
\* calls the hooks; line 253 is Finish.
DoRequest(c) ==
    /\ ~crashed
    /\ ctx[c].pc = "dispatched"
    /\ ctx' = [ctx EXCEPT ![c].pc = "started"]
    /\ UNCHANGED <<cfg, txs, sinkLog, warnings, lastReplay, crashed, nBeforeRequest, nReplay, t>>

Next ==
    \/ \E c \in CtxIds : Accept(c)
    \/ \E c \in CtxIds : Connect(c)
    \/ \E c \in CtxIds : ShortCircuit(c)
    \/ \E c \in CtxIds : BeforeRequest(c)
    \/ \E c \in CtxIds : TraceGotConn(c)
    \/ \E c \in CtxIds : RoundTrip(c)
    \/ \E c \in CtxIds : BeforeResponse(c)
    \/ \E c \in CtxIds : Finish(c)
    \/ \E c \in CtxIds : DoRequest(c)
    \/ Replay

Spec == Init /\ [][Next]_vars

(***************************************************************************)
(* The rewrite on its own: one input (a body, or a request and a           *)
(* response), and one of the four functions applied to it.                 *)
(***************************************************************************)
BodyInput(body) ==
    [op |-> "input", kind |-> "body", body |-> body, req |-> NoReq,
     resp |-> NilResp, out |-> <<>>]

RespInput(req, resp) ==
    [op |-> "input", kind |-> "resp", body |-> resp.Body.buf, req |-> req,
     resp |-> resp, out |-> <<>>]

ResponseBodies ==
    {ScenarioA, ScenarioB, PrettyA, JBad("not json"), JArr(<<>>),
     JObj(<<Member("records", JNull)>>, 0)}

RewriteResponses ==
    {JsonResponse(ct, body) : ct \in ContentTypes, body \in ResponseBodies}
    \cup {Response(CtHeader(<<"application/json">>),
                   [NewReader(body) EXCEPT !.fail = TRUE], ByteLen(body)) :
             body \in ResponseBodies}
    \cup {Response(CtHeader(<<"application/json">>), NewReader(ScenarioA), -1)}

RewriteRequests ==
    {Request(h, h, p, <<>>, "10.0.0.1:5555") : h \in UrlHosts, p \in UrlPaths}

RewriteInputs ==
    {BodyInput(body) : body \in Bodies}
    \cup {RespInput(req, resp) : req \in RewriteRequests, resp \in RewriteResponses}

InitRewrite ==
    /\ cfg = [interceptor |-> "nil", storage |-> TRUE, output |-> TRUE]
    /\ ctx = [c \in CtxIds |-> FreeCtx]
    /\ txs = <<>>
    /\ sinkLog = <<>>
    /\ warnings = <<>>
    /\ lastReplay = NoReplay
    /\ crashed = FALSE
    /\ nBeforeRequest = 0
    /\ nReplay = 0
    /\ t \in RewriteInputs

Rest == <<cfg, ctx, txs, sinkLog, warnings, lastReplay, crashed, nBeforeRequest,
          nReplay>>

CallRewriteBody ==
    /\ t.op = "input" /\ t.kind = "body"
    /\ t' = [t EXCEPT !.op = "RewriteBody", !.out = RewriteBody(t.body)]
    /\ UNCHANGED Rest

CallModifyBodyIfNeeded ==
    /\ t.op = "input" /\ t.kind = "body"
    /\ t' = [t EXCEPT !.op = "modifyBodyIfNeeded", !.out = modifyBodyIfNeeded(t.body)]
    /\ UNCHANGED Rest

CallRewriteResp ==
    /\ t.op = "input" /\ t.kind = "resp"
    /\ t' = [t EXCEPT !.op = "RewriteResp", !.out = RewriteResp(t.req, t.resp)]
    /\ UNCHANGED Rest

CallModifyRespIfNeeded ==
    /\ t.op = "input" /\ t.kind = "resp"
    /\ t' = [t EXCEPT !.op = "modifyRespIfNeeded",
                      !.out = modifyRespIfNeeded(t.req, t.resp)]
    /\ UNCHANGED Rest

\* The transform applied once more, to the bytes it returned with modified=true.
Again(op, first, second) ==
    [op |-> op, kind |-> "body", body |-> t.body, req |-> t.req, resp |-> t.resp,
     out |-> first, again |-> second]

CallRewriteBodyAgain ==
    /\ t.op = "RewriteBody"
    /\ ~t.out.panic /\ t.out.update
    /\ t' = Again("RewriteBodyAgain", t.out, RewriteBody(t.out.ret))
    /\ UNCHANGED Rest

CallModifyBodyIfNeededAgain ==
    /\ t.op = "modifyBodyIfNeeded"
    /\ ~t.out.panic /\ t.out.update
    /\ t' = Again("modifyBodyIfNeededAgain", t.out, modifyBodyIfNeeded(t.out.ret))
    /\ UNCHANGED Rest

\* Recorder.BeforeResponse on a response the engine delivered, with the Example
\* interceptor installed or with none.
WithInterceptor(ic) == [interceptor |-> ic, storage |-> TRUE, output |-> TRUE]

CallBeforeResponse ==
    /\ t.op = "input" /\ t.kind = "resp"
    /\ \E ic \in {"Example", "nil"} :
          t' = [op |-> "BeforeResponse", kind |-> "resp", body |-> t.body,
                req |-> t.req, resp |-> t.resp, interceptor |-> ic,
                out |-> BeforeResponseOf(WithInterceptor(ic), t.req,
                                         RequestTx(t.req),
                                         [resp |-> t.resp, err |-> FALSE])]
    /\ UNCHANGED Rest

NextRewrite ==
    \/ CallBeforeResponse
    \/ CallRewriteBody
    \/ CallModifyBodyIfNeeded
    \/ CallRewriteResp
    \/ CallModifyRespIfNeeded
    \/ CallRewriteBodyAgain
    \/ CallModifyBodyIfNeededAgain

SpecRewrite == InitRewrite /\ [][NextRewrite]_vars

(***************************************************************************)
(* The claims.                                                             *)
(***************************************************************************)
\* The claims' own reading of "the settingId starts with the prefix".
ClaimMatches(e) ==
    /\ e.k = "map"
    /\ "settingId" \in DOMAIN e.m
    /\ e.m["settingId"].k = "string"
    /\ Len(e.m["settingId"].s) >= Len(SettingIdPrefix)
    /\ SubSeq(e.m["settingId"].s, 1, Len(SettingIdPrefix)) = SettingIdPrefix

\* The body is a JSON document.
ParsesAsJson(body) == body.t # "bad"

\* The body is an object whose records is an array of objects with a string settingId.
ExpectedShape(body) ==
    /\ body.t = "obj"
    /\ LET d == Decode(body).m
       IN  /\ "records" \in DOMAIN d
           /\ d["records"].k = "slice"
           /\ \A i \in 1..Len(d["records"].a) :
                 LET e == d["records"].a[i]
                 IN  /\ e.k = "map"
                     /\ "settingId" \in DOMAIN e.m
                     /\ e.m["settingId"].k = "string"

\* Some element of the body's records array matches the rule.
HasMatch(body) ==
    /\ body.t = "obj"
    /\ LET d == Decode(body).m
       IN  /\ "records" \in DOMAIN d
           /\ d["records"].k = "slice"
           /\ \E i \in 1..Len(d["records"].a) : ClaimMatches(d["records"].a[i])

BodyOps == {"RewriteBody", "modifyBodyIfNeeded"}
RespOps == {"RewriteResp", "modifyRespIfNeeded"}

\* C1: for every body that parses as JSON but has not the expected shape (and
\* holds no matching record), RewriteBody and modifyBodyIfNeeded return the
\* original bytes with modified=false and raise no fault.  The code panics on a
\* document that is no object and on a records that is no array.
C1_UnexpectedShapePassesThrough ==
    (/\ t.op \in BodyOps
     /\ ParsesAsJson(t.body)
     /\ ~ExpectedShape(t.body)
     /\ ~HasMatch(t.body))
    => (/\ ~t.out.panic
        /\ ~t.out.update
        /\ t.out.ret = t.body)

\* C5: for every object body whose records array holds a matching element, the
\* transform returns modified=true, and in the returned document every matching
\* element has value "true" and keeps its other keys, every other element and
\* every other key of the document is as in the input.
C5_MatchingRecordsRewritten ==
    (t.op \in BodyOps /\ HasMatch(t.body))
    => (/\ ~t.out.panic
        /\ t.out.update
        /\ t.out.ret.t = "obj"
        /\ LET din == Decode(t.body).m
               dout == Decode(t.out.ret).m
           IN  /\ DOMAIN dout = DOMAIN din
               /\ \A key \in (DOMAIN din) \ {"records"} : dout[key] = din[key]
               /\ dout["records"].k = "slice"
               /\ Len(dout["records"].a) = Len(din["records"].a)
               /\ \A i \in 1..Len(din["records"].a) :
                     LET a == din["records"].a[i]
                         b == dout["records"].a[i]
                     IN  IF ClaimMatches(a)
                         THEN /\ b.k = "map"
                              /\ DOMAIN b.m = (DOMAIN a.m) \cup {"value"}
                              /\ b.m["value"] = GoTrue
                              /\ \A key \in (DOMAIN a.m) \ {"value"} :
                                    b.m[key] = a.m[key]
                         ELSE b = a)

\* C5's case: a body with two matching records and one that does not match, in a
\* document with another key, written with white space, was rewritten.
C5_Witness ==
    /\ t.op = "RewriteBody"
    /\ HasMatch(t.body)
    /\ t.out.update
    /\ t.out.ret # t.body
    /\ t.body.sp = 1
    /\ LET recs == Decode(t.body).m["records"].a
       IN  /\ \E i \in 1..Len(recs) : ClaimMatches(recs[i])
           /\ \E i \in 1..Len(recs) : ~ClaimMatches(recs[i])

\* The claims' own reading of the media type: the part of Content-Type before
\* the first ";", trimmed; application/octet-stream when that is empty.
MediaType(h) ==
    LET raw == HeaderGet(h, "Content-Type")
        i == IndexFrom(raw, ";", 1)
        first == TrimSpace(IF i = 0 THEN raw ELSE SubSeq(raw, 1, i - 1))
    IN  IF first = "" THEN "application/octet-stream" ELSE first

\* The eligibility predicate of the rewrite.
Eligible(req, resp) ==
    /\ HasPrefix(req.URL.Host, HostPrefix)
    /\ HasPrefix(req.URL.Path, PathPrefix)
    /\ HasPrefix(MediaType(resp.Header), "application/json")

\* C6: for every response that fails a part of the eligibility predicate,
\* RewriteResp (and modifyRespIfNeeded) leaves the body and the content-length
\* as they are and does not read the body.
C6_IneligibleUntouched ==
    (t.op \in RespOps /\ ~t.resp.nil /\ ~Eligible(t.req, t.resp))
    => (/\ ~t.out.panic
        /\ ~t.out.bodyRead
        /\ t.out.resp = t.resp)

\* C6's case: host and path match and the media type alone fails (a header whose
\* first segment is empty falls back to application/octet-stream).
C6_Witness ==
    /\ t.op = "RewriteResp"
    /\ ~t.resp.nil
    /\ HasPrefix(t.req.URL.Host, HostPrefix)
    /\ HasPrefix(t.req.URL.Path, PathPrefix)
    /\ HeaderGet(t.resp.Header, "Content-Type") = "; application/json"
    /\ t.out.resp = t.resp
    /\ HasMatch(t.resp.Body.buf)

\* The exchange has a Transaction on its context.
HasTx(c) == "tx" \in DOMAIN ctx[c].Data
TxOf(c) == txs[ctx[c].Data["tx"]]

Called(c, hook) == \E k \in 1..Len(ctx[c].hooks) : ctx[c].hooks[k] = hook

\* BeforeResponse has been invoked on the context (it returned, or it panicked).
AfterBeforeResponse(c) == Called(c, "BeforeResponse")

\* BeforeRequest has been invoked on the context.
AfterBeforeRequest(c) == Called(c, "BeforeRequest")

\* C2: when BeforeResponse handles an eligible response on which the transform
\* reports modified=false, the body that stays readable on the response, and
\* that is dumped into the Transaction and forwarded, is the original body, and
\* the content-length is unchanged.  The code drains the body and leaves it so.
C2_UnmodifiedBodyStaysReadable ==
    \A c \in CtxIds :
        (/\ AfterBeforeResponse(c)
         /\ ~ctx[c].inErr
         /\ Eligible(ctx[c].Req, ctx[c].inResp)
         /\ ~RewriteBody(ctx[c].inResp.Body.buf).panic
         /\ ~RewriteBody(ctx[c].inResp.Body.buf).update)
        => (/\ ctx[c].pc # "panicked"
            /\ Readable(ctx[c].Resp.Body) = ctx[c].inResp.Body.buf
            /\ ctx[c].Resp.ContentLength = ctx[c].inResp.ContentLength
            /\ TxOf(c).Resp.body = ctx[c].inResp.Body.buf)

\* The calls of the sinks, and the warnings, that Finish made for a context.
SinkCallsOf(c) == SelectSeq(sinkLog, LAMBDA e : e.ctx = c)
WarningsOf(c) == SelectSeq(warnings, LAMBDA w : w.ctx = c)
SinkNames(calls) == [k \in 1..Len(calls) |-> calls[k].sink]

\* C3: in Finish with a Transaction present, Put and Write are independent: for
\* every combination of success and failure each configured sink is attempted
\* exactly once with the context's Transaction, Put before Write, a failure is
\* only logged (one warning for each failed call), and Finish has returned.
C3_SinksIndependent ==
    \A c \in CtxIds :
        (ctx[c].pc = "finished" /\ HasTx(c))
        => LET calls == SinkCallsOf(c)
           IN  /\ SinkNames(calls)
                    = (IF cfg.storage THEN <<"Put">> ELSE <<>>)
                      \o (IF cfg.output THEN <<"Write">> ELSE <<>>)
               /\ \A k \in 1..Len(calls) : calls[k].tx = ctx[c].Data["tx"]
               /\ WarningsOf(c)
                    = SelectSeq([k \in 1..Len(calls) |->
                                    [ctx |-> c, sink |-> calls[k].sink,
                                     ok |-> calls[k].ok]],
                                LAMBDA w : ~w.ok)

\* C3's case (Scenario C): Put failed, and Write was still called and succeeded.
C3_Witness ==
    \E c \in CtxIds :
        /\ ctx[c].pc = "finished"
        /\ HasTx(c)
        /\ Len(SinkCallsOf(c)) = 2
        /\ SinkCallsOf(c)[1].sink = "Put" /\ ~SinkCallsOf(c)[1].ok
        /\ SinkCallsOf(c)[2].sink = "Write" /\ SinkCallsOf(c)[2].ok
        /\ Len(WarningsOf(c)) = 1

\* C4: Finish on a context that holds no Transaction is a no-op: neither
\* Storage.Put nor Output.Write is called and nothing is logged.
C4_FinishWithoutTxIsNoOp ==
    \A c \in CtxIds :
        (ctx[c].pc = "finished" /\ ~HasTx(c))
        => (/\ SinkCallsOf(c) = <<>>
            /\ WarningsOf(c) = <<>>)

\* C4's case: an exchange ended before BeforeRequest has been finished, with
\* both sinks configured.
C4_Witness ==
    \E c \in CtxIds :
        /\ ctx[c].pc = "finished"
        /\ ~HasTx(c)
        /\ cfg.storage /\ cfg.output

\* C7: if Storage.Get reports an error or yields no Transaction, or if Restore
\* fails, Replay returns a non-nil error, dispatches no request and does not
\* crash.  The code dereferences the nil Transaction of a Get without error.
C7_ReplayFailureReturnsError ==
    (cfg.storage /\ lastReplay.cause \in {"get-error", "no-transaction", "restore-error"})
    => (lastReplay.result = "error" /\ ~lastReplay.dispatched)

\* C8: after BeforeRequest the request's host is the first X-Mars-Host value if
\* that is not empty, and otherwise unchanged; neither X-Mars-Host nor
\* X-Mars-Debug is on the request that is dumped and forwarded.
C8_HostOverrideAndStrip ==
    \A c \in CtxIds :
        AfterBeforeRequest(c)
        => LET given == HeaderGet(ctx[c].inReq.Header, "X-Mars-Host")
               dumped == TxOf(c).Req
           IN  /\ ctx[c].Req.Host = (IF given # "" THEN given ELSE ctx[c].inReq.Host)
               /\ "X-Mars-Host" \notin DOMAIN ctx[c].Req.Header
               /\ "X-Mars-Debug" \notin DOMAIN ctx[c].Req.Header
               /\ dumped.dumped
               /\ dumped.req.Host = ctx[c].Req.Host
               /\ dumped.req.Header = ctx[c].Req.Header
               /\ ctx[c].Req.URL = ctx[c].inReq.URL

\* C8's case: X-Mars-Host was present with an empty value, so the override did
\* not fire, and the header is gone all the same.
C8_Witness ==
    \E c \in CtxIds :
        /\ AfterBeforeRequest(c)
        /\ "X-Mars-Host" \in DOMAIN ctx[c].inReq.Header
        /\ HeaderGet(ctx[c].inReq.Header, "X-Mars-Host") = ""
        /\ ctx[c].Req.Host = ctx[c].inReq.Host
        /\ "X-Mars-Host" \notin DOMAIN ctx[c].Req.Header
        /\ "Accept" \in DOMAIN ctx[c].Req.Header

\* C9: when BeforeResponse is invoked with a transport error and no response,
\* for every request it completes without fault, rewrites nothing, and the
\* Transaction records the error.  The code reads resp.Header of the nil
\* response when the request's host and path match the rule.
C9_TransportErrorRecorded ==
    \A c \in CtxIds :
        (AfterBeforeResponse(c) /\ ctx[c].inErr /\ ctx[c].inResp.nil)
        => (/\ ctx[c].pc # "panicked"
            /\ ctx[c].Resp = ctx[c].inResp
            /\ TxOf(c).Resp.dumped
            /\ TxOf(c).Resp.err)

\* C10: one Transaction is created for each request that reaches BeforeRequest,
\* there, and stored on that request's context; no other hook creates one: the
\* Transactions created are as many as the BeforeRequest invocations, a context
\* holds one exactly when BeforeRequest has run on it, and no two share one.
C10_OneTxPerBeforeRequest ==
    /\ Len(txs) = nBeforeRequest
    /\ Len(txs) = Cardinality({c \in CtxIds : AfterBeforeRequest(c)})
    /\ \A c \in CtxIds :
          /\ HasTx(c) <=> AfterBeforeRequest(c)
          /\ HasTx(c) => ctx[c].Data["tx"] \in 1..Len(txs)
    /\ \A c, d \in CtxIds :
          (HasTx(c) /\ HasTx(d) /\ c # d) => ctx[c].Data["tx"] # ctx[d].Data["tx"]

\* C10's case: a live and a replayed exchange have both passed BeforeRequest,
\* and one of them has been through BeforeResponse and Finish.
C10_Witness ==
    /\ nBeforeRequest = 2
    /\ \A c \in CtxIds : HasTx(c)
    /\ \E c \in LiveCtx : ctx[c].pc = "finished"
    /\ \E c \in ReplayCtx : ctx[c].pc = "requested"

\* C11: for every successful lookup and restore, the step in which Replay is
\* called ends with Replay's nil and the request handed to a goroutine on which
\* no hook has run and for which no sink has been called; no later step (a
\* response, a transport error, a failure of a sink in the replayed exchange)
\* changes what Replay returned.
C11_ReplayReturnsAtDispatch ==
    [][/\ (nReplay' # nReplay /\ cfg.storage /\ lastReplay'.cause = "found")
           => (/\ lastReplay'.result = "nil"
               /\ lastReplay'.dispatched
               /\ sinkLog' = sinkLog /\ txs' = txs
               /\ \E c \in ReplayCtx :
                     /\ ctx[c].pc = "free"
                     /\ ctx'[c].pc = "dispatched"
                     /\ ctx'[c].hooks = <<>>)
       /\ (nReplay' = nReplay) => (lastReplay' = lastReplay)]_vars

\* C11's case: Replay returned nil, and the replayed exchange then ended with a
\* transport error and a Storage.Put that failed.
C11_Witness ==
    /\ lastReplay.cause = "found"
    /\ lastReplay.result = "nil"
    /\ \E c \in ReplayCtx :
          /\ ctx[c].pc = "finished"
          /\ ctx[c].inErr
          /\ \E k \in 1..Len(sinkLog) :
                sinkLog[k].ctx = c /\ sinkLog[k].sink = "Put" /\ ~sinkLog[k].ok

\* The goroutine of a DoRequest call has a next step to take.
Running(c) ==
    /\ ~crashed
    /\ ctx[c].pc \in {"dispatched", "started", "requested", "tripped", "responded"}

\* C12: every DoRequest call with a request leads to Finish, once, on the context
\* it made, with the Transaction of its BeforeRequest handed to each configured
\* sink, whether the exchange ended with a response or with a transport error:
\* a goroutine of DoRequest is still running, or it has ended with that Finish.
\* The code panics in BeforeResponse on a transport error (and on a body of an
\* unexpected shape) when the request matches the rule; DoRequest then ends
\* without its call of Finish.
C12_DoRequestReachesFinish ==
    \A c \in ReplayCtx :
        (ctx[c].origin = "replay")
        => \/ Running(c)
           \/ /\ ctx[c].pc = "finished"
              /\ HasTx(c)
              /\ Len(SelectSeq(ctx[c].hooks, LAMBDA h : h = "Finish")) = 1
              /\ SinkNames(SinkCallsOf(c))
                   = (IF cfg.storage THEN <<"Put">> ELSE <<>>)
                     \o (IF cfg.output THEN <<"Write">> ELSE <<>>)
              /\ \A k \in 1..Len(SinkCallsOf(c)) :
                    SinkCallsOf(c)[k].tx = ctx[c].Data["tx"]

AgainOps == {"RewriteBodyAgain", "modifyBodyIfNeededAgain"}

\* C13: the transform is idempotent: for every body on which it reports
\* modified=true with output b', applying it to b' returns exactly b', without
\* a fault.
C13_RewriteIdempotent ==
    (t.op \in AgainOps)
    => (/\ ~t.again.panic
        /\ t.again.ret = t.out.ret)

\* C13's case: a body written with white space, a number "1.0" and a record
\* whose value was not "true" was rewritten to other bytes, and the second
\* application found its matching records already "true".
C13_Witness ==
    /\ t.op = "RewriteBodyAgain"
    /\ t.body.sp = 1
    /\ t.out.ret # t.body
    /\ ByteLen(t.out.ret) # ByteLen(t.body)
    /\ t.again.update
    /\ t.again.ret = t.out.ret
    /\ \E i \in 1..Len(Decode(t.body).m["records"].a) :
          LET e == Decode(t.body).m["records"].a[i]
          IN  ClaimMatches(e) /\ "value" \in DOMAIN e.m /\ e.m["value"] # GoTrue

\* The hooks called on a context, Connect left out.
HooksOf(c) == SelectSeq(ctx[c].hooks, LAMBDA h : h # "Connect")

HandedOver(i) == \E k \in 1..Len(sinkLog) : sinkLog[k].tx = i

C16_InterceptorFirstDumpLast ==
    \A c \in CtxIds :
        AfterBeforeResponse(c)
        => IF ctx[c].pc = "panicked"
           THEN /\ ~TxOf(c).Resp.dumped
                /\ TxOf(c).Duration
                     = (IF cfg.interceptor = "nil" THEN "measured" ELSE "zero")
           ELSE /\ TxOf(c).Duration = "measured"
                /\ TxOf(c).Resp.dumped
                /\ TxOf(c).Resp.err = ctx[c].inErr
                /\ ~ctx[c].inErr
                   => /\ TxOf(c).Resp.body = Readable(ctx[c].Resp.Body)
                      /\ TxOf(c).Resp.contentLength = ctx[c].Resp.ContentLength
                      /\ TxOf(c).Resp.header = ctx[c].inResp.Header
                      /\ (Eligible(ctx[c].Req, ctx[c].inResp)
                          /\ HasMatch(ctx[c].inResp.Body.buf))
                         => /\ TxOf(c).Resp.body
                                 = RewriteBody(ctx[c].inResp.Body.buf).ret
                            /\ TxOf(c).Resp.body # ctx[c].inResp.Body.buf

\* C16's case: with the Example interceptor configured, a response that the
\* rule applies to was rewritten and the dump holds the rewritten bytes.
C16_Witness ==
    \E c \in CtxIds :
        /\ cfg.interceptor = "Example"
        /\ ctx[c].pc = "responded"
        /\ ~ctx[c].inErr
        /\ Eligible(ctx[c].Req, ctx[c].inResp)
        /\ HasMatch(ctx[c].inResp.Body.buf)
        /\ TxOf(c).Resp.body # ctx[c].inResp.Body.buf
        /\ TxOf(c).Resp.body = Readable(ctx[c].Resp.Body)

\* C17: for every interleaving of the hooks of concurrent exchanges, the
\* Transaction of a context stays the one its BeforeRequest made (it holds that
\* context's request, and after BeforeResponse that context's outcome), Finish
\* hands that one to the sinks, and a step of another exchange neither changes
\* the Transaction nor the context's reference to it.
C17_TransactionOwnedByExchange ==
    [][\A c \in CtxIds :
          /\ HasTx(c)
             => /\ ctx'[c].Data = ctx[c].Data
                /\ (ctx'[c] = ctx[c]) => (txs'[ctx[c].Data["tx"]] = TxOf(c))
          /\ "tx" \in DOMAIN ctx'[c].Data
             => LET tx == txs'[ctx'[c].Data["tx"]]
                IN  /\ tx.Req = DumpRequest(ctx'[c].Req)
                    /\ tx.ClientIP = SplitHostPort(ctx'[c].inReq.RemoteAddr)
                    /\ tx.Resp.dumped => (tx.Resp.err = ctx'[c].inErr)
                    /\ \A k \in 1..Len(sinkLog') :
                          (sinkLog'[k].ctx = c)
                          => /\ sinkLog'[k].tx = ctx'[c].Data["tx"]
                             /\ sinkLog'[k].snap = tx]_vars

\* C17's case: a live and a replayed exchange interleave, each with its own
\* Transaction: one has been finished with a transport error, the other has a
\* response dumped.
C17_Witness ==
    \E c, d \in CtxIds :
        /\ c # d
        /\ HasTx(c) /\ HasTx(d)
        /\ ctx[c].pc = "finished" /\ TxOf(c).Resp.err
        /\ ctx[d].pc = "responded" /\ ~TxOf(d).Resp.err
        /\ TxOf(c).Req # TxOf(d).Req
        /\ Len(SinkCallsOf(c)) > 0

\* C18: for every stored Transaction that Replay dispatches, the replayed
\* request's RemoteAddr is the original client IP followed by ":80", and the
\* Transaction that BeforeRequest makes for the replayed exchange has the
\* original Transaction's client IP.  The code appends ":80" to an IPv6 address
\* without brackets, and SplitHostPort rejects the result.
C18_ReplayKeepsClientIP ==
    \A c \in ReplayCtx :
        (lastReplay.dispatched /\ ctx[c].origin = "replay")
        => /\ ctx[c].inReq.RemoteAddr = lastReplay.clientIP \o ":80"
           /\ HasTx(c) => (TxOf(c).ClientIP = lastReplay.clientIP)

\* C19: when the transform reports modified=true, RewriteResp replaces the body
\* with the new bytes and sets the content-length to their length; and after
\* BeforeResponse the content-length of a response always equals the number of
\* bytes readable from its body (the engine delivers responses for which it
\* does).  The code leaves an eligible response that is not modified with its
\* body drained and its content-length as it was.
C19_ContentLengthMatchesBody ==
    \A c \in CtxIds :
        (/\ AfterBeforeResponse(c)
         /\ ctx[c].pc # "panicked"
         /\ ~ctx[c].inErr
         /\ ctx[c].inResp.ContentLength = ByteLen(ctx[c].inResp.Body.buf))
        => /\ ctx[c].Resp.ContentLength = ByteLen(Readable(ctx[c].Resp.Body))
           /\ (Eligible(ctx[c].Req, ctx[c].inResp)
               /\ RewriteBody(ctx[c].inResp.Body.buf).update)
              => /\ Readable(ctx[c].Resp.Body)
                      = RewriteBody(ctx[c].inResp.Body.buf).ret
                 /\ ctx[c].Resp.ContentLength
                      = ByteLen(RewriteBody(ctx[c].inResp.Body.buf).ret)

\* The other of the two configurations of the interceptor.
OtherInterceptor(ic) == IF ic = "Example" THEN "nil" ELSE "Example"

\* C20: the two implementations of the rule are equivalent: on every body
\* modifyBodyIfNeeded and RewriteBody return the same (bytes, modified) or fault
\* alike, on every request and response modifyRespIfNeeded and RewriteResp have
\* the same effect on the body and the content-length, and BeforeResponse with
\* the Example interceptor installed (the rule applied twice) leaves the same
\* response, and the same dump of it, as BeforeResponse of the Recorder alone.
C20_RuleImplementationsEquivalent ==
    /\ (t.op = "RewriteBody") => (t.out = modifyBodyIfNeeded(t.body))
    /\ (t.op = "modifyBodyIfNeeded") => (t.out = RewriteBody(t.body))
    /\ (t.op = "RewriteResp") => (t.out = modifyRespIfNeeded(t.req, t.resp))
    /\ (t.op = "modifyRespIfNeeded") => (t.out = RewriteResp(t.req, t.resp))
    /\ (t.op = "BeforeResponse")
       => LET other == BeforeResponseOf(WithInterceptor(OtherInterceptor(t.interceptor)),
                                        t.req, RequestTx(t.req),
                                        [resp |-> t.resp, err |-> FALSE])
          IN  /\ t.out.panic = other.panic
              /\ t.out.resp = other.resp
              /\ t.out.tx.Resp = other.tx.Resp

\* C20's case: with the Example interceptor installed the rule ran twice on an
\* eligible response with a matching record, written with white space, and the
\* response holds the bytes one application gives, under their length.
C20_Witness ==
    /\ t.op = "BeforeResponse"
    /\ t.interceptor = "Example"
    /\ ~t.out.panic
    /\ Eligible(t.req, t.resp)
    /\ HasMatch(t.body)
    /\ t.body.sp = 1
    /\ Readable(t.out.resp.Body) = RewriteBody(t.body).ret
    /\ Readable(t.out.resp.Body) # t.body
    /\ t.out.resp.ContentLength = ByteLen(RewriteBody(t.body).ret)

=============================================================================
